---- MODULE Spec2Model ----
(***************************************************************************)
(* State-machine model of the Save Our Shores cleanup-data pipeline        *)
(* (cleanup.py): orient_data, rename_data, read_sheet, merge_columns,      *)
(* merge_sites and merge_data.  Data frames are modelled as a sequence of  *)
(* column labels plus a sequence of rows; every cell is a record that says *)
(* whether it is a number, a string, a timestamp or a missing value.       *)
(***************************************************************************)
EXTENDS Integers, Sequences, FiniteSets, TLC

VARIABLES
    file_paths,   \* the workbooks glob found, in the order merge_data reads them
    taken,        \* number of workbooks the loop of merge_data has taken
    sos_data,     \* the frame of the file being processed
    merged_data,  \* the accumulator of merge_data (None before the first file)
    csv,          \* merged_sos_data.csv (None while it is not written)
    pc,           \* the next statement of the script
    raised,       \* name of the exception that ended the run ("" if none)
    passes,       \* number of applications of the function under study
    arg,          \* the frame it was first applied to
    first_pass    \* its result after the first application

vars == <<file_paths, taken, sos_data, merged_data, csv, pc, raised, passes, arg,
          first_pass>>

-----------------------------------------------------------------------------
(* Python strings.  TLC strings are sequences of characters.               *)

Lowers == "abcdefghijklmnopqrstuvwxyz"
Uppers == "ABCDEFGHIJKLMNOPQRSTUVWXYZ"
Digits == "0123456789"

Char(s, i) == SubSeq(s, i, i)

IndexIn(alphabet, c) ==
    IF \E i \in 1..Len(alphabet) : Char(alphabet, i) = c
    THEN CHOOSE i \in 1..Len(alphabet) : Char(alphabet, i) = c
    ELSE 0

IsLower(c) == IndexIn(Lowers, c) > 0
IsUpper(c) == IndexIn(Uppers, c) > 0
IsDigit(c) == IndexIn(Digits, c) > 0
ToUpper(c) == IF IsLower(c) THEN Char(Uppers, IndexIn(Lowers, c)) ELSE c
ToLower(c) == IF IsUpper(c) THEN Char(Lowers, IndexIn(Uppers, c)) ELSE c

\* str.title(): a cased character is upper-cased when the character before
\* it is not cased, and lower-cased when it is.
RECURSIVE TitleFrom(_, _, _)
TitleFrom(s, i, prev_cased) ==
    IF i > Len(s) THEN ""
    ELSE LET c == Char(s, i)
             cased == IsLower(c) \/ IsUpper(c)
             t == IF prev_cased THEN ToLower(c) ELSE ToUpper(c)
         IN  t \o TitleFrom(s, i + 1, cased)

title(s) == TitleFrom(s, 1, FALSE)

\* str.strip(): leading and trailing whitespace removed.
RECURSIVE strip(_)
strip(s) ==
    IF Len(s) = 0 THEN s
    ELSE IF Char(s, 1) = " " THEN strip(SubSeq(s, 2, Len(s)))
    ELSE IF Char(s, Len(s)) = " " THEN strip(SubSeq(s, 1, Len(s) - 1))
    ELSE s

\* s.find(key) >= 0
find(s, key) ==
    \E i \in 1..(Len(s) - Len(key) + 1) : SubSeq(s, i, i + Len(key) - 1) = key

\* str.replace(old, new): non-overlapping occurrences, left to right.
RECURSIVE ReplaceFrom(_, _, _, _)
ReplaceFrom(s, i, old, new) ==
    IF i > Len(s) THEN ""
    ELSE IF i + Len(old) - 1 <= Len(s) /\ SubSeq(s, i, i + Len(old) - 1) = old
         THEN new \o ReplaceFrom(s, i + Len(old), old, new)
         ELSE Char(s, i) \o ReplaceFrom(s, i + 1, old, new)

replace(s, old, new) == ReplaceFrom(s, 1, old, new)

\* str(n) for a non-negative integer
RECURSIVE IntToStr(_)
IntToStr(n) ==
    IF n < 10 THEN Char(Digits, n + 1)
    ELSE IntToStr(n \div 10) \o Char(Digits, (n % 10) + 1)

IsDigits(s) == Len(s) > 0 /\ \A i \in 1..Len(s) : IsDigit(Char(s, i))

\* int(s) for a string of decimal digits
RECURSIVE StrToInt(_)
StrToInt(s) ==
    IF Len(s) = 0 THEN 0
    ELSE 10 * StrToInt(SubSeq(s, 1, Len(s) - 1)) + (IndexIn(Digits, Char(s, Len(s))) - 1)

-----------------------------------------------------------------------------
(* Cells and frames.  A number is the fraction n/d in lowest terms; a       *)
(* timestamp carries its calendar day as the integer yyyymmdd.             *)

Str(s) == [k |-> "str", n |-> 0, d |-> 1, s |-> s]
Num(n) == [k |-> "num", n |-> n, d |-> 1, s |-> ""]
Ts(n)  == [k |-> "date", n |-> n, d |-> 1, s |-> ""]
NaN    == [k |-> "nan", n |-> 0, d |-> 1, s |-> ""]

isna(c) == c.k = "nan"
IsNum(c) == c.k = "num"

RECURSIVE Gcd(_, _)
Gcd(a, b) == IF b = 0 THEN a ELSE Gcd(b, a % b)

Abs(a) == IF a < 0 THEN -a ELSE a

Frac(n, d) ==
    LET g == Gcd(Abs(n), Abs(d))
        sg == IF d < 0 THEN -1 ELSE 1
    IN  [k |-> "num", n |-> sg * (n \div g), d |-> sg * (d \div g), s |-> ""]

\* a + b on float columns: a missing operand makes the result missing
Add(a, b) ==
    IF isna(a) \/ isna(b) THEN NaN
    ELSE Frac(a.n * b.d + b.n * a.d, a.d * b.d)

\* a / b on columns: callers never pass a zero divisor
Div(a, b) ==
    IF isna(a) \/ isna(b) THEN NaN
    ELSE Frac(a.n * b.d, a.d * b.n)

SeqToSet(q) == {q[i] : i \in 1..Len(q)}

RECURSIVE FoldRange(_, _, _, _)
\* Step(... Step(Step(x, lo), lo + 1) ..., hi): a loop over lo..hi in order
\* (the test y = y makes TLC compute y before it goes on to the next round)
FoldRange(Step(_, _), x, lo, hi) ==
    IF lo > hi THEN x
    ELSE LET y == Step(x, lo)
         IN  IF y = y THEN FoldRange(Step, y, lo + 1, hi) ELSE x

\* Body of a value computed once (an operator's argument is evaluated once,
\* a LET definition again at every use)
With(v, Body(_)) == Body(v)

RECURSIVE SelectIdx(_, _, _)
\* the indices i in lo..hi with keep[i], in increasing order
SelectIdx(keep, lo, hi) ==
    IF lo > hi THEN <<>>
    ELSE (IF keep[lo] THEN <<lo>> ELSE <<>>) \o SelectIdx(keep, lo + 1, hi)

RangeIndex(n) == [i \in 1..n |-> Num(i - 1)]

\* pd.DataFrame: column labels, row labels and the rows, cell by cell
Frame(columns, index, rows) == [columns |-> columns, index |-> index, rows |-> rows]

\* Python None (merged_data before the first file, the value of a call that raised)
None == [none |-> TRUE]
IsNone(x) == "none" \in DOMAIN x

Locs(df, label) == {j \in 1..Len(df.columns) : df.columns[j] = label}
HasCol(df, label) == Locs(df, label) # {}
Loc(df, label) == CHOOSE j \in Locs(df, label) : \A i \in Locs(df, label) : j <= i
IsDup(df, label) == Cardinality(Locs(df, label)) > 1

\* df.drop(labels, axis=1): every column carrying one of the labels goes
DropCols(df, labels) ==
    With(SelectIdx([j \in 1..Len(df.columns) |-> df.columns[j] \notin labels],
                   1, Len(df.columns)),
         LAMBDA keep :
             Frame([j \in 1..Len(keep) |-> df.columns[keep[j]]],
                   df.index,
                   [r \in 1..Len(df.rows) |->
                       [j \in 1..Len(keep) |-> df.rows[r][keep[j]]]]))

\* the rows r with keep[r], their row labels kept
KeepRows(df, keep) ==
    With(SelectIdx(keep, 1, Len(df.rows)),
         LAMBDA idx : Frame(df.columns,
                            [r \in 1..Len(idx) |-> df.index[idx[r]]],
                            [r \in 1..Len(idx) |-> df.rows[idx[r]]]))

\* df[label] = values: an absent label is appended, a present one overwritten
SetCol(df, label, values) ==
    IF HasCol(df, label)
    THEN Frame(df.columns, df.index,
               [r \in 1..Len(df.rows) |->
                   [j \in 1..Len(df.columns) |->
                       IF df.columns[j] = label THEN values[r] ELSE df.rows[r][j]]])
    ELSE Frame(Append(df.columns, label), df.index,
               [r \in 1..Len(df.rows) |-> Append(df.rows[r], values[r])])

\* df[label] as a sequence of cells, for a label present once
Col(df, label) == [r \in 1..Len(df.rows) |-> df.rows[r][Loc(df, label)]]

\* outcome of a call: the frame it returns, or the exception it raises
Ok(df) == [err |-> "", df |-> df]
Raise(name) == [err |-> name, df |-> None]

\* the next statement runs on what the last returned, unless that one raised
Then(res, Stmt(_)) == IF res.err # "" THEN res ELSE Stmt(res.df)

-----------------------------------------------------------------------------
(* pd.read_excel: a workbook is its header row and its data rows.           *)

\* na_values of the call, and the strings pandas reads as missing by default
NaValues == {"UNK", "Unk", "-", "#REF!"}
DefaultNaValues ==
    {"", "#N/A", "#N/A N/A", "#NA", "-1.#IND", "-1.#QNAN", "-NaN", "-nan",
     "1.#IND", "1.#QNAN", "<NA>", "N/A", "NA", "NULL", "NaN", "None", "n/a",
     "nan", "null"}

ReadCell(c) ==
    IF c.k = "str" /\ c.s \in (NaValues \cup DefaultNaValues) THEN NaN ELSE c

\* a blank header cell gets the placeholder label of its position, a repeated
\* header gets a numbered suffix
HeaderLabel(header, j) ==
    LET c == header[j]
        before == Cardinality({i \in 1..(j - 1) : header[i] = c})
    IN  IF isna(c) THEN Str("Unnamed: " \o IntToStr(j - 1))
        ELSE IF c.k = "str" /\ before > 0 THEN Str(c.s \o "." \o IntToStr(before))
        ELSE c

read_excel(book) ==
    Frame([j \in 1..Len(book.header) |-> HeaderLabel(book.header, j)],
          RangeIndex(Len(book.data)),
          [r \in 1..Len(book.data) |->
              [j \in 1..Len(book.header) |-> ReadCell(book.data[r][j])]])

-----------------------------------------------------------------------------
(* orient_data                                                             *)

IsPlaceholder(label) == label.k = "str" /\ find(label.s, "Unnamed")

\* a column is summed by sum(numeric_only=True) after fillna(0) when none of
\* its cells is a string or a timestamp
NumericAfterFill(df, j) ==
    \A r \in 1..Len(df.rows) : df.rows[r][j].k \in {"num", "nan"}

RECURSIVE SumCells(_, _)
SumCells(cells, i) ==
    IF i > Len(cells) THEN Num(0)
    ELSE Add(IF isna(cells[i]) THEN Num(0) ELSE cells[i], SumCells(cells, i + 1))

\* lines 78-80: the second row with an empty first cell starts the catch-all
MarkOther(df) ==
    With(SelectIdx([r \in 1..Len(df.rows) |-> isna(df.rows[r][1])], 1, Len(df.rows)),
         LAMBDA nan_idxs :
             IF Len(nan_idxs) > 1
             THEN Frame(df.columns, df.index,
                        [r \in 1..Len(df.rows) |->
                            IF r = nan_idxs[2]
                            THEN [df.rows[r] EXCEPT ![1] = Str("Other:")]
                            ELSE df.rows[r]])
             ELSE df)

\* lines 82-83: set_index(first column), then transpose
Transpose(df) ==
    Frame([r \in 1..Len(df.rows) |-> df.rows[r][1]],
          [j \in 1..(Len(df.columns) - 1) |-> df.columns[j + 1]],
          [j \in 1..(Len(df.columns) - 1) |->
              [r \in 1..Len(df.rows) |-> df.rows[r][j + 1]]])

\* faulty variant of line 88: the rows without any value are left in
DropEmptyRowsSkipped(df) == df

\* line 88: dropna(how='all')
DropEmptyRows(df) ==
    KeepRows(df, [r \in 1..Len(df.rows) |->
                     \E j \in 1..Len(df.columns) : ~isna(df.rows[r][j])])

\* lines 91-96: position of the catch-all column, 0 when there is none
OtherLabel(df) ==
    IF HasCol(df, Str("Other:")) THEN Str("Other:")
    ELSE IF HasCol(df, Str("Other 1- Wine Cork")) THEN Str("Other 1- Wine Cork")
    ELSE NaN

\* lines 98-102: sum the catch-all segment into 'Other Sum', drop its columns
SumOther(df, other_idx) ==
    With(SelectIdx([j \in 1..Len(df.columns) |->
                       j >= other_idx /\ NumericAfterFill(df, j)], 1, Len(df.columns)),
         LAMBDA seg :
             DropCols(SetCol(df, Str("Other Sum"),
                             [r \in 1..Len(df.rows) |->
                                 SumCells([i \in 1..Len(seg) |-> df.rows[r][seg[i]]], 1)]),
                      {df.columns[j] : j \in other_idx..Len(df.columns)}))

\* lines 78-88: the sheet transposed, before the catch-all columns are summed
Flipped(sos_data0) == DropEmptyRows(DropCols(Transpose(MarkOther(sos_data0)), {NaN}))

\* lines 78-102: the sheet has its items in rows
Flip(sos_data0) ==
    With(DropEmptyRows(DropCols(Transpose(MarkOther(sos_data0)), {NaN})),
         LAMBDA t :
             IF isna(OtherLabel(t)) THEN Ok(t)
             \* get_loc of a repeated label is a slice or a mask, not a position:
             \* the comparison with -1 (or the test of its result) raises
             ELSE IF IsDup(t, OtherLabel(t)) THEN Raise("TypeError")
             ELSE Ok(SumOther(t, Loc(t, OtherLabel(t)))))

\* faulty variant of line 76 (>= 0 for > 0): every sheet is transposed
orient_data_always(sos_data0) == Flip(sos_data0)

orient_data(sos_data0) ==
    IF \E j \in 1..Len(sos_data0.columns) : IsPlaceholder(sos_data0.columns[j])
    THEN Flip(sos_data0)
    ELSE Ok(sos_data0)

-----------------------------------------------------------------------------
(* rename_data and make_numeric_cols_numeric_again                         *)

NONNUMERIC_COLS ==
    <<"Date",
      "Data Collection",
      "Duration (Hrs)",
      "County/City",
      "Cleanup Site",
      "Cleaned Size (Sq Miles)",
      "Adult Volunteers",
      "Youth Volunteers",
      "Trash (lbs)",
      "Recycling (lbs)",
      "Type Of Cleanup">>

\* the columns= dictionary of the rename call, as pairs (old label, new label)
RenameColumns ==
    <<<<"Date Of Cleanup Event/Fecha", "Date">>,
      <<"Cleanup Date", "Date">>,
      <<"Cleanup Site/Sitio De Limpieza", "Cleanup Site">>,
      <<"Estimated Size Of Location Cleaned (Sq Miles)", "Cleaned Size (Sq Miles)">>,
      <<"Cleanup Area", "Cleaned Size (Sq Miles)">>,
      <<"Data Collection Method", "Data Collection">>,
      <<"Total Cleanup Duration (Hrs)", "Duration (Hrs)">>,
      <<"# Of Volunteers", "Adult Volunteers">>,
      <<"Pounds Of Trash Collected", "Trash (lbs)">>,
      <<"Pounds Of Trash", "Trash (lbs)">>,
      <<"Pounds Of Recycle Collected", "Recycling (lbs)">>,
      <<"Pounds Of Recycling", "Recycling (lbs)">>,
      <<"County/City Where The Event Was Held?", "County/City">>,
      <<"County", "County/City">>,
      <<"City/County", "County/City">>,
      <<"Appliances (Refrigerators, Washers, Etc.)", "Appliances">>,
      <<"Beverage Bottles (Glass)", "Glass Bottles">>,
      <<"Beverages Sachets/Pouches", "Beverage Pouches">>,
      <<"Beverages Sachets", "Beverage Pouches">>,
      <<"Toys And Beach Accessories", "Beach Gear">>,
      <<"Beach Chairs, Toys Umbrellas", "Beach Gear">>,
      <<"Balloons Or Ribbon", "Balloons">>,
      <<"Bandaids Or Bandages", "Bandaids">>,
      <<"Bikes Or Bike Parts", "Bikes">>,
      <<"Clothes, Cloth", "Clothes">>,
      <<"Clothes Or Towels", "Clothes">>,
      <<"Fireworkds", "Fireworks">>,
      <<"Footwear (Shoes/Slippers)", "Footwear">>,
      <<"Shoes", "Footwear">>,
      <<"Glass Pieces And Chunks", "Glass Pieces">>,
      <<"Pieces And Chunks", "Glass Pieces">>,
      <<"Polystyrene Foodware (Foam)", "Polystyrene Foodware">>,
      <<"Personal Protective Equipment (Masks, Gloves)", "PPE">>,
      <<"Personal Protective Equipment", "PPE">>,
      <<"Lids (Plastic)", "Plastic Lids">>,
      <<"Rope (1 Yard/Meter = 1 Piece)", "Rope">>,
      <<"Utensils (Plastic)", "Utensils">>,
      <<"Forks, Knives, Spoons", "Utensils">>,
      <<"Wood Pallets, Pieces And Processed Wood", "Wood Pieces">>>>

\* str(x) of a column label
LabelStr(c) ==
    IF c.k = "str" THEN c.s
    ELSE IF c.k = "nan" THEN "nan"
    ELSE IF c.k = "num" THEN (IF c.n < 0 THEN "-" ELSE "") \o IntToStr(Abs(c.n))
    ELSE LET y == IntToStr(c.n)
         IN  SubSeq(y, 1, 4) \o "-" \o SubSeq(y, 5, 6) \o "-" \o SubSeq(y, 7, 8)
             \o " 00:00:00"

Renamed(s) ==
    IF \E i \in 1..Len(RenameColumns) : RenameColumns[i][1] = s
    THEN RenameColumns[CHOOSE i \in 1..Len(RenameColumns) : RenameColumns[i][1] = s][2]
    ELSE s

\* line 114 title-cases str(label); lines 115-155 rename through the dictionary
rename_data(df) ==
    Frame([j \in 1..Len(df.columns) |-> Str(Renamed(title(LabelStr(df.columns[j]))))],
          df.index, df.rows)

NonNumeric == {Str(NONNUMERIC_COLS[i]) : i \in 1..Len(NONNUMERIC_COLS)}

\* pd.to_numeric(errors='coerce') of one cell
to_numeric(c) ==
    IF c.k = "num" THEN c
    ELSE IF c.k = "str" /\ IsDigits(c.s) THEN Num(StrToInt(c.s))
    ELSE NaN

\* lines 51-53: the metadata columns the sheet lacks are added, all missing
AddNonNumeric(df) ==
    With(SelectIdx([i \in 1..Len(NONNUMERIC_COLS) |->
                       ~HasCol(df, Str(NONNUMERIC_COLS[i]))], 1, Len(NONNUMERIC_COLS)),
         LAMBDA missing :
             Frame(df.columns
                       \o [i \in 1..Len(missing) |-> Str(NONNUMERIC_COLS[missing[i]])],
                   df.index,
                   [r \in 1..Len(df.rows) |->
                       df.rows[r] \o [i \in 1..Len(missing) |-> NaN]]))

RECURSIVE Concat(_, _)
\* the concatenation of the sequences q[i], q[i+1], ...
Concat(q, i) == IF i > Len(q) THEN <<>> ELSE q[i] \o Concat(q, i + 1)

\* lines 54-58: metadata columns first, in NONNUMERIC_COLS order (a repeated
\* label brings all its columns), then the item columns, each made numeric
make_numeric_cols_numeric_again(sos_data0) ==
    With(AddNonNumeric(sos_data0), LAMBDA df :
    With(Concat([i \in 1..Len(NONNUMERIC_COLS) |->
                    SelectIdx([j \in 1..Len(df.columns) |->
                                  df.columns[j] = Str(NONNUMERIC_COLS[i])],
                              1, Len(df.columns))], 1), LAMBDA meta :
    With(SelectIdx([j \in 1..Len(df.columns) |-> df.columns[j] \notin NonNumeric],
                   1, Len(df.columns)), LAMBDA items :
        \* to_numeric of the two columns a repeated item label selects
        IF \E j \in 1..Len(items) : IsDup(df, df.columns[items[j]])
        THEN Raise("TypeError")
        ELSE Ok(Frame([j \in 1..Len(df.columns) |->
                          IF j <= Len(meta) THEN df.columns[meta[j]]
                          ELSE df.columns[items[j - Len(meta)]]],
                      df.index,
                      [r \in 1..Len(df.rows) |->
                          [j \in 1..Len(df.columns) |->
                              IF j <= Len(meta) THEN df.rows[r][meta[j]]
                              ELSE to_numeric(df.rows[r][items[j - Len(meta)]])]])))))

-----------------------------------------------------------------------------
(* read_sheet                                                              *)

IsLeap(y) == (y % 4 = 0 /\ y % 100 # 0) \/ y % 400 = 0

DaysIn(y, m) ==
    IF m = 2 THEN (IF IsLeap(y) THEN 29 ELSE 28)
    ELSE IF m \in {4, 6, 9, 11} THEN 30 ELSE 31

\* pd.to_datetime(errors='coerce') of one cell: a timestamp stays, a string
\* 'yyyy-mm-dd' naming a calendar day parses, a number counts nanoseconds
\* from 1970-01-01, anything else becomes NaT
to_datetime(c) ==
    IF c.k = "date" THEN c
    ELSE IF c.k = "num" THEN Ts(19700101)
    ELSE IF c.k = "str" /\ Len(c.s) = 10
            /\ IsDigits(SubSeq(c.s, 1, 4)) /\ Char(c.s, 5) = "-"
            /\ IsDigits(SubSeq(c.s, 6, 7)) /\ Char(c.s, 8) = "-"
            /\ IsDigits(SubSeq(c.s, 9, 10))
         THEN LET y == StrToInt(SubSeq(c.s, 1, 4))
                  m == StrToInt(SubSeq(c.s, 6, 7))
                  dd == StrToInt(SubSeq(c.s, 9, 10))
              IN  IF y >= 1 /\ m \in 1..12 /\ dd \in 1..DaysIn(y, m)
                  THEN Ts(y * 10000 + m * 100 + dd)
                  ELSE NaN
    ELSE NaN

\* Series.replace(olds, new, inplace=True) on the column df[label]; on a
\* repeated label df[label] is a copy of two columns and df keeps its cells
ReplaceInCol(df, label, olds, new) ==
    IF IsDup(df, label) THEN df
    ELSE SetCol(df, label, [r \in 1..Len(df.rows) |->
                               IF Col(df, label)[r] \in olds THEN new
                               ELSE Col(df, label)[r]])

\* dropna(subset=labels): rows with a missing cell under one of the labels go
DropNa(df, labels) ==
    KeepRows(df, [r \in 1..Len(df.rows) |->
                     \A j \in 1..Len(df.columns) :
                         df.columns[j] \in labels => ~isna(df.rows[r][j])])

\* faulty variant of line 575: the rows keep the labels they had in the sheet
reset_index_skipped(df) == df

reset_index(df) == Frame(df.columns, RangeIndex(Len(df.rows)), df.rows)

\* faulty variant of line 561: the hours divided by the count without
\* fillna(1)
VolunteerHoursNoFill(df) ==
    IF ~HasCol(df, Str("Volunteer Hours")) THEN Ok(df)
    ELSE IF ~HasCol(df, Str("Adult Volunteers")) THEN Raise("KeyError")
    ELSE With(ReplaceInCol(df, Str("Adult Volunteers"), {Num(0)}, Num(1)), LAMBDA d1 :
         With(Col(d1, Str("Volunteer Hours")), LAMBDA hours :
         With(Col(d1, Str("Adult Volunteers")), LAMBDA vols :
             IF \E r \in 1..Len(d1.rows) :
                    hours[r].k \in {"str", "date"} \/ vols[r].k \in {"str", "date"}
             THEN Raise("TypeError")
             ELSE Ok(DropCols(
                      SetCol(d1, Str("Duration (Hrs)"),
                             [r \in 1..Len(d1.rows) |-> Div(hours[r], vols[r])]),
                      {Str("Volunteer Hours")})))))

\* faulty variant of line 560: the zeros replaced in a copy of the column,
\* the table keeping its own
VolunteerHoursCopy(df) ==
    IF ~HasCol(df, Str("Volunteer Hours")) THEN Ok(df)
    ELSE IF ~HasCol(df, Str("Adult Volunteers")) THEN Raise("KeyError")
    ELSE With(ReplaceInCol(df, Str("Adult Volunteers"), {Num(0)}, Num(1)), LAMBDA d1 :
         With(Col(d1, Str("Volunteer Hours")), LAMBDA hours :
         With(Col(d1, Str("Adult Volunteers")), LAMBDA vols :
             IF \E r \in 1..Len(d1.rows) :
                    hours[r].k \in {"str", "date"} \/ vols[r].k \in {"str", "date"}
             THEN Raise("TypeError")
             ELSE Ok(DropCols(
                      SetCol(df, Str("Duration (Hrs)"),
                             [r \in 1..Len(d1.rows) |->
                                 Div(hours[r], IF isna(vols[r]) THEN Num(1) ELSE vols[r])]),
                      {Str("Volunteer Hours")})))))

\* lines 559-562, for sheets in which 'Volunteer Hours' and 'Adult Volunteers'
\* are not repeated labels
VolunteerHours(df) ==
    IF ~HasCol(df, Str("Volunteer Hours")) THEN Ok(df)
    ELSE IF ~HasCol(df, Str("Adult Volunteers")) THEN Raise("KeyError")
    ELSE With(ReplaceInCol(df, Str("Adult Volunteers"), {Num(0)}, Num(1)), LAMBDA d1 :
         With(Col(d1, Str("Volunteer Hours")), LAMBDA hours :
         With(Col(d1, Str("Adult Volunteers")), LAMBDA vols :
             \* a string or timestamp operand makes the division raise
             IF \E r \in 1..Len(d1.rows) :
                    hours[r].k \in {"str", "date"} \/ vols[r].k \in {"str", "date"}
             THEN Raise("TypeError")
             ELSE Ok(DropCols(
                      SetCol(d1, Str("Duration (Hrs)"),
                             [r \in 1..Len(d1.rows) |->
                                 Div(hours[r], IF isna(vols[r]) THEN Num(1) ELSE vols[r])]),
                      {Str("Volunteer Hours")})))))

\* faulty variant of lines 566-569: each step guarded by "if the column is
\* there", the way line 559 guards the volunteer hours
DropInvalidIfPresent(df) ==
    With(IF HasCol(df, Str("Cleanup Site"))
         THEN ReplaceInCol(df, Str("Cleanup Site"), {Num(0), Num(1)}, NaN)
         ELSE df,
         LAMBDA site :
             Ok(DropNa(IF HasCol(df, Str("Date"))
                       THEN ReplaceInCol(site, Str("Date"), {Num(0)}, NaN)
                       ELSE site,
                       {c \in {Str("Cleanup Site"), Str("Date")} : HasCol(df, c)})))

\* lines 566-569
DropInvalid(df) ==
    IF ~HasCol(df, Str("Cleanup Site")) \/ ~HasCol(df, Str("Date"))
    THEN Raise("KeyError")
    ELSE Ok(DropNa(ReplaceInCol(ReplaceInCol(df, Str("Cleanup Site"),
                                             {Num(0), Num(1)}, NaN),
                                Str("Date"), {Num(0)}, NaN),
                   {Str("Cleanup Site"), Str("Date")}))

\* lines 573-574
ParseDates(df) ==
    \* to_datetime of the two columns a repeated 'Date' label selects
    IF IsDup(df, Str("Date")) THEN Raise("ValueError")
    ELSE Ok(DropNa(SetCol(df, Str("Date"),
                          [r \in 1..Len(df.rows) |->
                              to_datetime(Col(df, Str("Date"))[r])]),
                   {Str("Date")}))

\* lines 555-562: the sheet oriented and renamed, every row still there
SheetRenamed(book) ==
    Then(orient_data(read_excel(book)), LAMBDA df : VolunteerHours(rename_data(df)))

\* lines 555-569: the sheet oriented and renamed, without the rows that lack
\* a site or a date; the item cells are still as the sheet has them
SheetCells(book) ==
    Then(Then(orient_data(read_excel(book)),
              LAMBDA df : VolunteerHours(rename_data(df))),
         DropInvalid)

\* lines 555-574: the surviving rows, still under their labels in the sheet
SheetRows(book) ==
    Then(Then(SheetCells(book), make_numeric_cols_numeric_again), ParseDates)

read_sheet(book) == Then(SheetRows(book), LAMBDA df : Ok(reset_index(df)))

-----------------------------------------------------------------------------
(* merge_columns                                                           *)

\* the _add_cols calls of merge_columns, as pairs (target_col, source_cols)
MergeGroups ==
    <<<<"6-Pack Holders", <<"6-Pack Holders", "Plastic Six-Pack Rings", "6Ppack Holders">>>>,
      <<"Plastic Bags", <<"Shopping Bags", "Other Plastic Bags", "Plastic Shopping Bags", "Plastic Bags (Grocery, Shopping)", "Plastic Bags (Trash) ", "Plastic Bags (Ziplock, Snack)", "Grocery Bags (Plastic)", "Plastic Bags (Trash) New">>>>,
      <<"Bottle Caps", <<"Bottle Caps", "Bottle Caps And Rings", "Metal Bottle Caps", "Plastic Bottle Caps And Rings", "Plastic Bottle Caps Or Rings", "Metal Bottle Caps Or Can Pulls", "Metal Can Pulls/Tags", "Bottle Caps (Plastic)", "Bottle Caps (Metal)">>>>,
      <<"Paper/Cardboard", <<"Cardboard", "Paper Cardboard", "Paper Bags", "Cardboard, Newspapers, Magazines", "Paper Newpapers/ Magazines", "Newspapers/Magazines">>>>,
      <<"Cans", <<"Beverage Cans", "Beer Cans", "Soda Cans", "Metal Beverage Cans">>>>,
      <<"E-Waste", <<"E-Waste", "Vape Items/ E-Smoking Devices", "E-Cigarettes">>>>,
      <<"Fishing Gear", <<"Fishing Gear (Lures, Nets, Etc.)", "Fishing Lines, Nets, Traps, Ropes, Pots", "Plastic Fishing Line, Nets, Lures, Floats", "Fishing Net & Pieces", "Fishing Line (1 Yard/Meter = 1 Piece)", "Fishing Buoys, Pots & Traps", "Metal Fishing Hooks Or Lures", "Styrofoam Buoys Or Floats", "Crab Pots", "Fishing Line">>>>,
      <<"Food Containers", <<"Food Containers, Cups, Plates, Bowls", "Food Containers (Plastic)", "Food Containers (Foam)", "Food Containers/ Cups/ Plates/ Bowls", "Paper Food Containers, Cups, Plates", "Paper Food Containers, Cups, Plates, Bowls", "Paper/ Cardboard Food Containers, Cups, Plates, Bowls", "Plastic Polystyrene Cups/Plates/Bowls (Foam)", "Plastic Cups, Lids/Plates/Utensils", "Polystyrene Foodware", "Styrofoam Food Containers", "Styrofoam Cups, Plates And Bowls ", "Cups, Plates (Paper)", "Cups, Plates (Plastic)", "Cups, Plates (Foam)", "Cups & Plates (Paper)", "Cups & Plates (Plastic)", "Cups & Plates (Foam)", "Plastic Cups, Lids, Plates, Utensils", "Styrofoam Cups, Plates And Bowls New">>>>,
      <<"Lighters", <<"Cigarette Lighters", "Disposable Lighters", "Disposable Cigarette Lighters">>>>,
      <<"Metal Nails", <<"Nails", "Metal Nails">>>>,
      <<"Personal Hygiene", <<"Personal Hygiene", "Condoms", "Diapers", "Tampons/Tampon Applicators", "Tampons/Applicators", "Cotton Bud Sticks (Swabs)", "Feminine Products", "Feminine Hygeine Products">>>>,
      <<"Plastic Packaging", <<"Foam Packaging", "Other Plastic/ Foam Packaging", "Other Plastic/Foam Packaging", "Other Packaging (Clean Swell)", "Styrofoam Peanuts Or Packing Materials">>>>,
      <<"Plastic Bottles", <<"Plastic Bottles", "Other Plastic Bottles (Oil, Bleach, Etc.)", "Plastic Motor Oil Bottles", "Other Plastic Bottles", "Beverage Bottles (Plastic)">>>>,
      <<"Plastic Pieces", <<"Plastic Pieces", "Polystyrene Pieces", "Foam Dock Pieces", "Styrofoam Pieces", "Foam Pieces">>>>,
      <<"Plastic To-Go", <<"Plastic To-Go Items", "Plastic Polystyrene Food \"To-Go\" Containers", "Take Out/Away Containers (Foam)", "Take Out/Away Containers (Plastic)", "Take Out/Away (Plastic", "Take Out/Away (Foam)">>>>,
      <<"Food Wrappers", <<"Plastic Food Wrappers", "Food Wrappers", "Food Wrapper", "Plastic Food Wrappers (Ie Chips Or Candy)">>>>,
      <<"Rope", <<"Rope (Yard Pieces)", "Rope">>>>,
      <<"Tobacco", <<"Smoking, Tobacco (Not E-Waste Or Butts)", "Tobacco Packaging/Wrap", "Smoking, Tobacco, Vape Items (Not Butts)", "Cigarette Box Or Wrappers", "Other Tobacco (Packaging, Lighter, Etc.)">>>>,
      <<"Straws/Stirrers", <<"Straws/Stirrers", "Straws And Stirrers", "Plastic Straws Or Stirrers">>>>,
      <<"Syringes/Needles", <<"Syringes/Needles", "Syringes Or Needles", "Syringes">>>>,
      <<"Wood Pieces", <<"Wood Pieces", "Pallets Or Wood">>>>,
      <<"Other", <<"Other, Small", "Other, Large", "Other Plastics Waste", "Other Waste (Metal, Paper, Etc.)", "Other Trash (Clean Swell)", "Other Sum">>>>>>

\* dtype == 'O': the column holds something that is neither number nor missing
IsObject(df, label) ==
    \E r \in 1..Len(df.rows) : Col(df, label)[r].k \in {"str", "date"}

Zeros(df) == [r \in 1..Len(df.rows) |-> Num(0)]

\* faulty variant of line 180: = for +=, the last source column wins
AddSourceAssign(df, existing_cols, target_col, source_col) ==
    IF source_col \in existing_cols /\ target_col # source_col
    THEN DropCols(SetCol(df, target_col, Col(df, source_col)), {source_col})
    ELSE df

\* lines 174-181 for one source column
AddSource(df, existing_cols, target_col, source_col) ==
    IF source_col \in existing_cols /\ target_col # source_col
    THEN With(Col(df, source_col), LAMBDA src :
             DropCols(SetCol(df, target_col,
                             [r \in 1..Len(df.rows) |->
                                 Add(Col(df, target_col)[r],
                                     IF src[r].k = "str" THEN Num(0) ELSE src[r])]),
                      {source_col}))
    ELSE df

\* faulty variant of lines 167-171: the target column is set to 0 whether or
\* not the sheet already has it
_add_cols_fresh(sos_data0, target_col, source_cols) ==
    With(SeqToSet(sos_data0.columns), LAMBDA existing_cols :
        FoldRange(LAMBDA x, i : AddSource(x, existing_cols, Str(target_col),
                                          Str(source_cols[i])),
                  SetCol(sos_data0, Str(target_col), Zeros(sos_data0)),
                  1, Len(source_cols)))

_add_cols(sos_data0, target_col, source_cols) ==
    With(SeqToSet(sos_data0.columns), LAMBDA existing_cols :
        \* line 173: for source_col in source_cols
        FoldRange(LAMBDA x, i : AddSource(x, existing_cols, Str(target_col),
                                          Str(source_cols[i])),
                  IF Str(target_col) \notin existing_cols
                     \/ IsObject(sos_data0, Str(target_col))
                  THEN SetCol(sos_data0, Str(target_col), Zeros(sos_data0))
                  ELSE sos_data0,
                  1, Len(source_cols)))

\* the target_col of the _add_cols calls
Destinations == {Str(MergeGroups[g][1]) : g \in 1..Len(MergeGroups)}

\* faulty variant of lines 379-388: the last call sweeps every item column
\* that is left over into 'Other'
merge_columns_sweep(sos_data0) ==
    With(FoldRange(LAMBDA df, g : _add_cols(df, MergeGroups[g][1], MergeGroups[g][2]),
                   sos_data0, 1, Len(MergeGroups)),
         LAMBDA df :
             With(SelectIdx([j \in 1..Len(df.columns) |->
                                df.columns[j] \notin NonNumeric \cup Destinations],
                            1, Len(df.columns)),
                  LAMBDA idx :
                      _add_cols(df, "Other", [i \in 1..Len(idx) |-> df.columns[idx[i]].s])))

\* lines 201-388: the _add_cols calls in program order
merge_columns(sos_data0) ==
    FoldRange(LAMBDA df, g : _add_cols(df, MergeGroups[g][1], MergeGroups[g][2]),
              sos_data0, 1, Len(MergeGroups))

-----------------------------------------------------------------------------
(* merge_sites                                                             *)

\* the _replace_name calls of merge_sites, as pairs (old_str, new_str)
\* faulty variant of lines 431-445: the restoring of 'SLR' after title-casing
\* (line 439) left out
ReplacementsNoSlr ==
    <<<<".", "">>,
      <<" To ", " - ">>,
      <<" Street", "">>,
      <<" Ave", "">>,
      <<"Sl River -", "SLR @">>,
      <<"San Lorenzo River", "SLR">>,
      <<"San Lorenzo R", "SLR">>,
      <<"SLR:", "SLR @">>,
      <<"SLR-", "SLR @">>,
      <<"SLR At", "SLR @">>,
      <<"SLR -", "SLR @">>,
      <<"SLR Cleanup", "SLR">>>>

Replacements ==
    <<<<".", "">>,
      <<" To ", " - ">>,
      <<" Street", "">>,
      <<" Ave", "">>,
      <<"Slr", "SLR">>,
      <<"Sl River -", "SLR @">>,
      <<"San Lorenzo River", "SLR">>,
      <<"San Lorenzo R", "SLR">>,
      <<"SLR:", "SLR @">>,
      <<"SLR-", "SLR @">>,
      <<"SLR At", "SLR @">>,
      <<"SLR -", "SLR @">>,
      <<"SLR Cleanup", "SLR">>>>

\* the _rename_site calls of merge_sites, as pairs (site_name, site_keys)
SiteRules ==
    <<<<"3-Mile State Beach", <<"3 Mile", "3-Mile", "Three Mile", "Three-Mile">>>>,
      <<"4-Mile State Beach", <<"4 Mile", "4-Mile", "Four Mile">>>>,
      <<"Aptos Creek", <<"Aptos">>>>,
      <<"Arroyo Seco", <<"Arroyo Seco">>>>,
      <<"Beer Can Beach", <<"Beer Can", "Beercan">>>>,
      <<"Blacks Beach", <<"Black">>>>,
      <<"Bonny Doon Beach", <<"Bonny Doon">>>>,
      <<"Capitola", <<"Capitola">>>>,
      <<"Carmel", <<"Carmel">>>>,
      <<"Corcoran Lagoon", <<"Corcoran", "Corcoron", "26Th">>>>,
      <<"Coyote Creek", <<"Coyote Creek">>>>,
      <<"Cowell/Main Beach", <<"Cowell", "Coewll", "Santa Cruz Main Beach">>>>,
      <<"Davenport Landing", <<"Davenport">>>>,
      <<"Del Monte Beach", <<"Del Monte">>>>,
      <<"Elkhorn Slough", <<"Elkhorn Slough">>>>,
      <<"Felton Covered Bridge", <<"Felton Covered Bridge">>>>,
      <<"Fisherman's Wharf", <<"Fisherman">>>>,
      <<"Fort Ord Dunes State Beach", <<"Fort Ord", "Ft. Ord", "Ford Ord">>>>,
      <<"Greyhound Rock Beach", <<"Greyhound">>>>,
      <<"Harkins Slough", <<"Harkin">>>>,
      <<"Heller Park", <<"Heller", "Hellyer">>>>,
      <<"Hidden Beach", <<"Hidden Beach">>>>,
      <<"Laguna Grande", <<"Laguna">>>>,
      <<"Lakeview Campus", <<"Lakeview">>>>,
      <<"Leona Creek", <<"Leona Creek">>>>,
      <<"Lighthouse Field State Beach", <<"Lighthouse", "Its Beach", "It'S Beach">>>>,
      <<"Lompico Creek", <<"Lompico Creek">>>>,
      <<"Lover's Point", <<"Lover">>>>,
      <<"Manresa State Beach", <<"Manresa", "Manressa">>>>,
      <<"Marina State Beach", <<"Marina State">>>>,
      <<"McAbee State Beach", <<"McAbee", "Mcabee">>>>,
      <<"Mitchell's Cove", <<"Mitchell'S Cove">>>>,
      <<"Monterey Bay Photo St.", <<"Monterey Bay Photo">>>>,
      <<"Monterey State Beach", <<"Monterey State">>>>,
      <<"Moran Lake", <<"Moran Lake">>>>,
      <<"Moss Landing", <<"Moss Landing">>>>,
      <<"Natural Bridges State Beach", <<"Natural Bridges">>>>,
      <<"New Brighton State Beach", <<"New Brighton">>>>,
      <<"Ano Nuevo", <<"Ano Nuevo">>>>,
      <<"North Del Monte", <<"North Del Monte">>>>,
      <<"Pajaro River", <<"Pajaro River">>>>,
      <<"Panther State Beach", <<"Panther">>>>,
      <<"Palm State Beach", <<"Palm">>>>,
      <<"Pleasure Point", <<"Pleasure Point">>>>,
      <<"Point Lobos State Natural Reserve", <<"Point Lobos">>>>,
      <<"Rio Del Mar State Beach", <<"Rio Del Mar">>>>,
      <<"Salinas River State Beach", <<"Salinas">>>>,
      <<"San Carlos Beach", <<"San Carlos">>>>,
      <<"Sand City Beach", <<"Sand City">>>>,
      <<"Santa Cruz Harbor", <<"Santa Cruz Harbor">>>>,
      <<"Santa Cruz Wharf", <<"Santa Cruz Wharf", "Santa Cruz Municipal Wharf", "Sc Wharf">>>>,
      <<"Seabright State Beach", <<"Seabright">>>>,
      <<"Seacliff State Beach", <<"Seacliff">>>>,
      <<"Seascape Beach", <<"Seascape">>>>,
      <<"Scott's Creek Beach", <<"Scott">>>>,
      <<"Shark Fin Cove State Beach", <<"Shark Fin">>>>,
      <<"Shark Tooth Beach", <<"Shark Tooth", "Sharks Tooth">>>>,
      <<"Sunny Cove Beach", <<"Sunny Cove">>>>,
      <<"Sunset State Beach", <<"Sunset">>>>,
      <<"Twin Lakes State Beach", <<"Twin Lakes">>>>,
      <<"Waddell Creek State Beach", <<"Waddell", "Wadell">>>>,
      <<"Watsonville Slough", <<"Watsonville Slough">>>>,
      <<"West Struve Slough", <<"West Struve Slough">>>>,
      <<"Woodrow State Beach", <<"Woodrow">>>>,
      <<"Zmudowski State Beach", <<"Zmudowski", "Zumdowski">>>>,
      <<"SLR @ Felton", <<"SLR @ Felton">>>>,
      <<"SLR @ Slv Recycling Center", <<"SLR @ Slv Recycling">>>>,
      <<"SLR @ The Tannery Arts Center", <<"Tannery">>>>,
      <<"SLR @ Felker", <<"SLR @ Felker", "SLR/Felke", "San Lorenzo River Levee", "SLR Levee">>>>,
      <<"SLR @ Fillmore", <<"SLR @ Fillmore", "SLR @ Filmore">>>>,
      <<"SLR @ Hwy 1", <<"SLR @ Hwy 1">>>>,
      <<"SLR @ Laurel", <<"SLR @ Laurel">>>>,
      <<"SLR @ Riverside", <<"SLR @ Riverside">>>>,
      <<"SLR @ Soquel", <<"SLR @ Soquel">>>>,
      <<"SLR @ Water", <<"SLR @ Water">>>>>>

\* _replace_name on one site string
_replace_name(s, old_str, new_str) == replace(s, old_str, new_str)

\* faulty variant of line 402: only the first key of the list is tried
_rename_site_first_key(s0, site_name, site_keys) ==
    IF find(s0, site_keys[1]) THEN site_name ELSE s0

\* _rename_site on one site string: one pass per key of the rule
_rename_site(s0, site_name, site_keys) ==
    FoldRange(LAMBDA s, i : IF find(s, site_keys[i]) THEN site_name ELSE s,
              s0, 1, Len(site_keys))

\* lines 425-445: strip, title-case, then the literal replacements in order
CleanSite(s0) ==
    FoldRange(LAMBDA s, i : _replace_name(s, Replacements[i][1], Replacements[i][2]),
              title(strip(s0)), 1, Len(Replacements))

\* faulty variant of lines 448-535: the calls in the reverse order
RenameSitesReversed(s0) ==
    FoldRange(LAMBDA s, i : _rename_site(s, SiteRules[Len(SiteRules) + 1 - i][1],
                                         SiteRules[Len(SiteRules) + 1 - i][2]),
              s0, 1, Len(SiteRules))

\* lines 448-535: the rules in table order on the current site string
RenameSites(s0) ==
    FoldRange(LAMBDA s, i : _rename_site(s, SiteRules[i][1], SiteRules[i][2]),
              s0, 1, Len(SiteRules))

\* merge_sites on the site string of one row
SiteName(s) == RenameSites(CleanSite(s))

\* faulty variant of lines 402-404: the name found for the first row is given
\* to the whole column
merge_sites_first_row(sos_data0) ==
    IF \E r \in 1..Len(sos_data0.rows) : Col(sos_data0, Str("Cleanup Site"))[r].k # "str"
    THEN Raise("AttributeError")
    ELSE Ok(SetCol(sos_data0, Str("Cleanup Site"),
                   [r \in 1..Len(sos_data0.rows) |->
                       Str(SiteName(Col(sos_data0, Str("Cleanup Site"))[1].s))]))

merge_sites(sos_data0) ==
    LET site == Str("Cleanup Site")
    IN  IF ~HasCol(sos_data0, site) THEN Raise("KeyError")
        ELSE IF IsDup(sos_data0, site)
             \* DataFrame.apply hands whole columns to s.strip(); on a frame
             \* without rows it calls nothing and hands the frame back
             THEN (IF Len(sos_data0.rows) > 0 THEN Raise("AttributeError")
                   ELSE Ok(sos_data0))
        \* a number or a timestamp has no strip()
        ELSE IF \E r \in 1..Len(sos_data0.rows) : Col(sos_data0, site)[r].k # "str"
             THEN Raise("AttributeError")
        ELSE Ok(SetCol(sos_data0, site,
                       [r \in 1..Len(sos_data0.rows) |->
                           Str(SiteName(Col(sos_data0, site)[r].s))]))

-----------------------------------------------------------------------------
(* merge_data                                                              *)

HasDupLabels(df) == \E j \in 1..Len(df.columns) : IsDup(df, df.columns[j])

\* the rows of df under the labels cols, a column df lacks filled with NaN
Reindexed(df, cols) ==
    [r \in 1..Len(df.rows) |->
        [j \in 1..Len(cols) |->
            IF HasCol(df, cols[j]) THEN df.rows[r][Loc(df, cols[j])] ELSE NaN]]

\* faulty variant of lines 593-597: the new frame takes the place of the
\* accumulated one
concat_last(a, b) == Ok(b)

\* pd.concat([a, b], axis=0, ignore_index=True): equal column lists stack;
\* otherwise the union of the labels, a's first, missing cells filled with NaN,
\* which needs unique labels on both sides
concat(a, b) ==
    IF a.columns = b.columns
    THEN Ok(Frame(a.columns, RangeIndex(Len(a.rows) + Len(b.rows)), a.rows \o b.rows))
    ELSE IF HasDupLabels(a) \/ HasDupLabels(b) THEN Raise("InvalidIndexError")
    ELSE With(SelectIdx([j \in 1..Len(b.columns) |-> ~HasCol(a, b.columns[j])],
                        1, Len(b.columns)), LAMBDA new :
         With(a.columns \o [i \in 1..Len(new) |-> b.columns[new[i]]], LAMBDA cols :
             Ok(Frame(cols, RangeIndex(Len(a.rows) + Len(b.rows)),
                      Reindexed(a, cols) \o Reindexed(b, cols)))))

RECURSIVE InsertSorted(_, _, _)
\* position-stable insertion of row i (a row index of df) into the sorted list
InsertSorted(df, order, i) ==
    IF order = <<>> THEN <<i>>
    ELSE LET last == order[Len(order)]
             key(r) == Col(df, Str("Date"))[r].n
         IN  IF key(last) <= key(i) THEN Append(order, i)
             ELSE Append(InsertSorted(df, SubSeq(order, 1, Len(order) - 1), i), last)

RECURSIVE SortOrder(_, _)
SortOrder(df, n) ==
    IF n = 0 THEN <<>> ELSE InsertSorted(df, SortOrder(df, n - 1), n)

\* faulty variant of line 599: without inplace=True the sorted copy is lost
sort_values_copy(df) == df

\* line 599: sort_values(by='Date'); rows keep their labels
sort_values(df) ==
    With(SortOrder(df, Len(df.rows)),
         LAMBDA order : Frame(df.columns,
                              [r \in 1..Len(order) |-> df.index[order[r]]],
                              [r \in 1..Len(order) |-> df.rows[order[r]]]))

-----------------------------------------------------------------------------
(* Workbooks the runs are checked on.                                      *)

MaxFiles == 2
MaxRows == 1
MaxItems == 3
MaxSites == 2
MaxPasses == 2

Book(header, data) == [header |-> header, data |-> data]

RECURSIVE Product(_, _)
\* the tuples that take their j-th component from sets[j], for j >= from
Product(sets, from) ==
    IF from > Len(sets) THEN {<<>>}
    ELSE {<<c>> \o rest : c \in sets[from], rest \in Product(sets, from + 1)}

SeqsUpTo(S, n) == UNION {[1..k -> S] : k \in 0..n}

Dates == {Ts(20190501), Str("2018-07-04"), NaN}
Sites == {Str(" natural bridges "), Num(5), Num(1)}
Counts == {Num(2), Str("some"), NaN}

\* the sheet layouts: header labels and, per column, the cells a row may hold
Layouts ==
    {[header |-> <<"Date Of Cleanup Event/Fecha", "Cleanup Site", "Beverage Cans", "Beer Cans">>,
      cells |-> <<{Str("2019-05-01"), Str("Total")}, {Str("Cowell Beach"), Num(5)},
                  {Num(3), NaN}, Counts>>],
     [header |-> <<"Cleanup Date", "Cleanup Site/Sitio De Limpieza", "Cigarette Butts", "Other, Small">>,
      cells |-> <<Dates, Sites, {Num(7)}, {Num(1), NaN}>>],
     [header |-> <<"Cleanup Site", "Beverage Cans">>,
      cells |-> <<Sites, {Num(3)}>>],
     [header |-> <<"Cleanup Date", "Beverage Cans">>,
      cells |-> <<Dates, {Num(3)}>>],
     [header |-> <<"Date Of Cleanup Event/Fecha", "Cleanup Date", "Cleanup Site", "Beer Cans">>,
      cells |-> <<Dates, {Ts(20190501)}, {Str("Cowell Beach")}, {Num(2)}>>],
     [header |-> <<"Cleanup Date", "Cleanup Site/Sitio De Limpieza", "Cleanup Site", "Beer Cans">>,
      cells |-> <<{Ts(20190501), Str("Total")}, Sites, {Str("Cowell Beach"), NaN}, {Num(2)}>>],
     [header |-> <<"Cleanup Date", "Cleanup Site", "County", "City/County">>,
      cells |-> <<{Ts(20190501), Str("Total")}, {Str("Cowell Beach")},
                  {Str("Santa Cruz"), NaN}, {Str("Monterey"), NaN}>>],
     [header |-> <<"cleanup date", "CLEANUP SITE", "Shoes", "Footwear (Shoes/Slippers)">>,
      cells |-> <<{Ts(20190501), NaN}, {Str("Cowell Beach")}, {Num(3)}, {Num(2), NaN}>>],
     [header |-> <<"Cleanup Date", "Cleanup Site", "Rope", "Rope (Yard Pieces)">>,
      cells |-> <<{Ts(20190501)}, {Str("Cowell Beach")}, {Num(1), NaN}, {Num(2)}>>],
     [header |-> <<"Cleanup Date", "Cleanup Site", "# Of Volunteers", "Beer Cans">>,
      cells |-> <<{Ts(20190501)}, {Str("Cowell Beach")}, {Num(0), Num(3)}, {Num(2)}>>],
     [header |-> <<"Cleanup Date", "Cleanup Site", "Volunteer Hours", "# Of Volunteers">>,
      cells |-> <<{Ts(20190501)}, {Str("Cowell Beach")}, {Num(6), NaN},
                  {Num(4), Num(0), NaN}>>]}

\* every layout with up to MaxRows rows
LayoutBooks ==
    UNION {{Book([j \in 1..Len(l.header) |-> Str(l.header[j])], data) :
               data \in SeqsUpTo(Product(l.cells, 1), MaxRows)} : l \in Layouts}

\* the sheet of the end-to-end scenario
SheetA ==
    Book(<<Str("Date Of Cleanup Event/Fecha"), Str("Cleanup Site"),
           Str("Beverage Cans"), Str("Beer Cans")>>,
         <<<<Str("2019-05-01"), Str("Cowell Beach"), Num(3), Num(2)>>>>)

\* two events out of date order, a summary row, an item no merge group names
SheetB ==
    Book(<<Str("Cleanup Date"), Str("Cleanup Site"), Str("Cigarette Butts")>>,
         <<<<Ts(20200315), Str("seabright"), Num(7)>>,
           <<Ts(20180704), Str("SLR at Soquel Ave"), Num(4)>>,
           <<Str("Total"), NaN, Num(11)>>>>)

\* an old workbook: items in rows, one column per cleanup, blank header cells
SheetOld ==
    Book(<<NaN, NaN, NaN>>,
         <<<<Str("Cleanup Date"), Ts(20170812), Ts(20170610)>>,
           <<Str("Cleanup Site"), Str("Capitola"), Str("Seabright")>>,
           <<Str("Beer Cans"), Num(4), Num(1)>>,
           <<NaN, NaN, NaN>>,
           <<NaN, NaN, NaN>>,
           <<Str("Wine Cork"), Num(1), NaN>>>>)

SheetNoDate ==
    Book(<<Str("Cleanup Site"), Str("Beer Cans")>>,
         <<<<Str("Cowell Beach"), Num(1)>>>>)

SheetTwoCounties ==
    Book(<<Str("Cleanup Date"), Str("Cleanup Site"), Str("County"), Str("City/County")>>,
         <<<<Ts(20190907), Str("Del Monte Beach"), Str("Monterey"), Str("Monterey")>>>>)

SheetNumericSite ==
    Book(<<Str("Cleanup Date"), Str("Cleanup Site"), Str("Beer Cans")>>,
         <<<<Ts(20210101), Num(5), Num(2)>>>>)

\* rows to drop between rows to keep: a summary row, a site that is the
\* number 1, a day that is not in the calendar; the events not in date order
SheetGaps ==
    Book(<<Str("Cleanup Date"), Str("Cleanup Site"), Str("Beer Cans")>>,
         <<<<Str("Total"), Str("Cowell Beach"), Num(9)>>,
           <<Ts(20210605), Str("Seabright"), Num(4)>>,
           <<Ts(20210710), Num(1), Num(2)>>,
           <<Str("2021-02-30"), Str("Capitola"), Num(1)>>,
           <<Str("2021-01-02"), Str("Capitola"), Num(5)>>>>)

\* the workbooks a data directory may hold
Books == {SheetA, SheetB, SheetOld, SheetNoDate, SheetTwoCounties, SheetNumericSite,
          SheetGaps}

-----------------------------------------------------------------------------
(* The script: merge_data (lines 579-600) and __main__ (lines 603-606).    *)

TypeOK ==
    /\ taken \in 0..Len(file_paths)
    /\ pc \in {"for", "merge_columns", "merge_sites", "concat", "to_csv", "exit",
               "raised", "apply"}
    /\ (pc = "raised") = (raised # "")
    /\ passes \in Nat

\* faulty variant of lines 584-585: the call wrapped in try/except, the error
\* noted and the loop carried on
ReadSheetAndCarryOn ==
    /\ pc = "for"
    /\ taken < Len(file_paths)
    /\ LET res == read_sheet(file_paths[taken + 1])
       IN  /\ taken' = taken + 1
           /\ IF res.err # ""
              THEN /\ pc' = "for"
                   /\ raised' = res.err
                   /\ UNCHANGED sos_data
              ELSE /\ pc' = "merge_columns"
                   /\ sos_data' = res.df
                   /\ UNCHANGED raised
    /\ UNCHANGED <<file_paths, merged_data, csv, passes, arg, first_pass>>

\* line 584: the loop takes the next workbook and reads it
ReadSheet ==
    /\ pc = "for"
    /\ taken < Len(file_paths)
    /\ LET res == read_sheet(file_paths[taken + 1])
       IN  /\ taken' = taken + 1
           /\ IF res.err # ""
              THEN /\ pc' = "raised"
                   /\ raised' = res.err
                   /\ UNCHANGED sos_data
              ELSE /\ pc' = "merge_columns"
                   /\ sos_data' = res.df
                   /\ UNCHANGED raised
    /\ UNCHANGED <<file_paths, merged_data, csv, passes, arg, first_pass>>

\* line 586
MergeColumns ==
    /\ pc = "merge_columns"
    /\ sos_data' = merge_columns(sos_data)
    /\ pc' = "merge_sites"
    /\ UNCHANGED <<file_paths, taken, merged_data, csv, raised, passes, arg, first_pass>>

\* line 589
MergeSites ==
    /\ pc = "merge_sites"
    /\ LET res == merge_sites(sos_data)
       IN  IF res.err # ""
           THEN /\ pc' = "raised"
                /\ raised' = res.err
                /\ UNCHANGED sos_data
           ELSE /\ pc' = "concat"
                /\ sos_data' = res.df
                /\ UNCHANGED raised
    /\ UNCHANGED <<file_paths, taken, merged_data, csv, passes, arg, first_pass>>

\* faulty variant of lines 590-597: the table written out each time a
\* workbook's rows are added, instead of once at line 606
AccumulateAndWrite ==
    /\ pc = "concat"
    /\ LET res == IF IsNone(merged_data) THEN Ok(sos_data)
                  ELSE concat(merged_data, sos_data)
       IN  IF res.err # ""
           THEN /\ pc' = "raised"
                /\ raised' = res.err
                /\ UNCHANGED <<merged_data, csv>>
           ELSE /\ pc' = "for"
                /\ merged_data' = res.df
                /\ csv' = [columns |-> res.df.columns, rows |-> res.df.rows]
                /\ UNCHANGED raised
    /\ UNCHANGED <<file_paths, taken, sos_data, passes, arg, first_pass>>

\* lines 590-597
Accumulate ==
    /\ pc = "concat"
    /\ LET res == IF IsNone(merged_data) THEN Ok(sos_data)
                  ELSE concat(merged_data, sos_data)
       IN  IF res.err # ""
           THEN /\ pc' = "raised"
                /\ raised' = res.err
                /\ UNCHANGED merged_data
           ELSE /\ pc' = "for"
                /\ merged_data' = res.df
                /\ UNCHANGED raised
    /\ UNCHANGED <<file_paths, taken, sos_data, csv, passes, arg, first_pass>>

\* faulty variant of lines 581 and 599-600: the accumulator starts as an empty
\* table, which is sorted and returned when there was no workbook
SortAndReturnEmpty ==
    /\ pc = "for"
    /\ taken = Len(file_paths)
    /\ pc' = "to_csv"
    /\ merged_data' = IF IsNone(merged_data) THEN Frame(<<>>, <<>>, <<>>)
                      ELSE sort_values(merged_data)
    /\ UNCHANGED <<file_paths, taken, sos_data, csv, raised, passes, arg, first_pass>>

\* lines 599-600: after the last workbook, sort by date and return
SortAndReturn ==
    /\ pc = "for"
    /\ taken = Len(file_paths)
    /\ IF IsNone(merged_data)
       \* None has no sort_values
       THEN /\ pc' = "raised"
            /\ raised' = "AttributeError"
            /\ UNCHANGED merged_data
       ELSE /\ pc' = "to_csv"
            /\ merged_data' = sort_values(merged_data)
            /\ UNCHANGED raised
    /\ UNCHANGED <<file_paths, taken, sos_data, csv, passes, arg, first_pass>>

\* line 606: the returned frame is written without its row labels
WriteCsv ==
    /\ pc = "to_csv"
    /\ csv' = [columns |-> merged_data.columns, rows |-> merged_data.rows]
    /\ pc' = "exit"
    /\ UNCHANGED <<file_paths, taken, sos_data, merged_data, raised, passes, arg, first_pass>>

Next == ReadSheet \/ MergeColumns \/ MergeSites \/ Accumulate \/ SortAndReturn \/ WriteCsv

Start ==
    /\ taken = 0
    /\ sos_data = None
    /\ merged_data = None
    /\ csv = None
    /\ pc = "for"
    /\ raised = ""
    /\ passes = 0
    /\ arg = None
    /\ first_pass = None

\* a run over a directory of up to MaxFiles workbooks, in any order
Init ==
    /\ file_paths \in SeqsUpTo(Books, MaxFiles)
    /\ Start

Spec == Init /\ [][Next]_vars

\* a run over a directory that holds one workbook
InitSheet ==
    /\ file_paths \in {<<b>> : b \in LayoutBooks \cup Books}
    /\ Start

SpecSheet == InitSheet /\ [][Next]_vars

-----------------------------------------------------------------------------
(* orient_data applied repeatedly to the frame read from a workbook.       *)

\* an old workbook with two cleanups whose catch-all row holds a count for
\* one of them and a remark for the other
SheetOldNotes ==
    Book(<<NaN, NaN, NaN>>,
         <<<<Str("Cleanup Site"), Str("Capitola"), Str("Seabright")>>,
           <<Str("Beer Cans"), Num(4), Num(1)>>,
           <<Str("Other:"), Num(2), Str("see notes")>>,
           <<Str("Wine Cork"), Num(1), NaN>>>>)

FirstCells == {Str("Beer Cans"), Str("Other:"), Str("Other 1- Wine Cork"),
               Str("Unnamed Item"), NaN}
OtherCells == {Num(1), Str("Capitola"), NaN}

\* workbooks of two columns with up to MaxItems rows, headers blank or not,
\* and the old workbook of the directory
OrientBooks ==
    {Book(h, data) :
        h \in Product(<<{NaN, Str("Item")}, {NaN, Str("Total")}>>, 1),
        data \in SeqsUpTo(Product(<<FirstCells, OtherCells>>, 1), MaxItems)}
    \cup {SheetOld, SheetOldNotes}

\* the script is not running: only the function under study acts
Idle ==
    /\ file_paths = <<>>
    /\ taken = 0
    /\ merged_data = None
    /\ csv = None
    /\ raised = ""
    /\ passes = 0
    /\ first_pass = None

InitOrient ==
    /\ Idle
    /\ pc = "apply"
    /\ arg \in {read_excel(b) : b \in OrientBooks}
    /\ sos_data = arg

\* one more call of orient_data on the frame the last call returned
ApplyOrient ==
    /\ pc = "apply"
    /\ passes < MaxPasses
    /\ LET res == orient_data(sos_data)
       IN  IF res.err # ""
           THEN /\ pc' = "raised"
                /\ raised' = res.err
                /\ UNCHANGED <<sos_data, passes, first_pass>>
           ELSE /\ sos_data' = res.df
                /\ passes' = passes + 1
                /\ first_pass' = IF passes = 0 THEN res.df ELSE first_pass
                /\ UNCHANGED <<pc, raised>>
    /\ UNCHANGED <<file_paths, taken, merged_data, csv, arg>>

SpecOrient == InitOrient /\ [][ApplyOrient]_vars

-----------------------------------------------------------------------------
(* merge_sites applied repeatedly to a table of events.                    *)

\* raw site names: what volunteers typed
RawSites ==
    {"Cowell Beach", " seabright ", "U.C. Santa Cruz", "san lorenzo river levee",
     "capitola to seabright",
     "SLR Cleanup Cleanup", "Ft. Ord", "Main St. To 2nd Ave", "mitchell's cove"}

\* every key of the rule table, typed as it stands in the table
KeySites ==
    UNION {{SiteRules[i][2][k] : k \in 1..Len(SiteRules[i][2])} : i \in 1..Len(SiteRules)}

EventTable(sites) ==
    Frame(<<Str("Date"), Str("Cleanup Site"), Str("Cans")>>,
          RangeIndex(Len(sites)),
          [r \in 1..Len(sites) |-> <<Ts(20190501), Str(sites[r]), Num(r)>>])

\* tables of up to MaxSites events, and one-event tables for every key
SiteTables ==
    {EventTable(q) : q \in SeqsUpTo(RawSites, MaxSites)}
    \cup {EventTable(<<key>>) : key \in KeySites}

InitSites ==
    /\ Idle
    /\ pc = "apply"
    /\ arg \in SiteTables
    /\ sos_data = arg

\* one more call of merge_sites on the table the last call returned
ApplySites ==
    /\ pc = "apply"
    /\ passes < MaxPasses
    /\ LET res == merge_sites(sos_data)
       IN  IF res.err # ""
           THEN /\ pc' = "raised"
                /\ raised' = res.err
                /\ UNCHANGED <<sos_data, passes, first_pass>>
           ELSE /\ sos_data' = res.df
                /\ passes' = passes + 1
                /\ first_pass' = IF passes = 0 THEN res.df ELSE first_pass
                /\ UNCHANGED <<pc, raised>>
    /\ UNCHANGED <<file_paths, taken, merged_data, csv, arg>>

SpecSites == InitSites /\ [][ApplySites]_vars

-----------------------------------------------------------------------------
(* Properties.                                                             *)

Returned == pc \in {"to_csv", "exit"}

Cell(df, r, label) == df.rows[r][Loc(df, Str(label))]

\* C1: the Date column of the dataset merge_data returns is non-decreasing
\* from the first row to the last, whatever the order the files were read in.
C1_DateSorted ==
    Returned =>
        \A r \in 1..(Len(merged_data.rows) - 1) :
            /\ Cell(merged_data, r, "Date").k = "date"
            /\ Cell(merged_data, r + 1, "Date").k = "date"
            /\ Cell(merged_data, r, "Date").n <= Cell(merged_data, r + 1, "Date").n

\* two files were merged and the sort had to move a row
C1_Witness ==
    /\ Returned
    /\ Len(file_paths) = 2
    /\ Len(merged_data.rows) >= 3
    /\ merged_data.index # RangeIndex(Len(merged_data.rows))

ValidRow(df, r) ==
    /\ ~isna(Cell(df, r, "Date"))
    /\ ~isna(Cell(df, r, "Cleanup Site"))
    /\ ~IsNum(Cell(df, r, "Cleanup Site"))

\* C2: every row of the table read_sheet returns, and every row of the dataset
\* merge_data returns, has a Date and a Cleanup Site that is not a number.
C2_ValidRows ==
    /\ pc = "merge_columns" => \A r \in 1..Len(sos_data.rows) : ValidRow(sos_data, r)
    /\ Returned => \A r \in 1..Len(merged_data.rows) : ValidRow(merged_data, r)

\* C3: merging the one sheet with a date, 'Cowell Beach', 3 beverage cans and
\* 2 beer cans gives one row: 2019-05-01, 'Cowell/Main Beach', Cans 5, Other 0,
\* and neither source column.
C3_EndToEnd ==
    file_paths = <<SheetA>> =>
        /\ pc # "raised"
        /\ Returned =>
            /\ Len(merged_data.rows) = 1
            /\ Cell(merged_data, 1, "Date") = Ts(20190501)
            /\ Cell(merged_data, 1, "Cleanup Site") = Str("Cowell/Main Beach")
            /\ Cell(merged_data, 1, "Cans") = Num(5)
            /\ Cell(merged_data, 1, "Other") = Num(0)
            /\ ~HasCol(merged_data, Str("Beverage Cans"))
            /\ ~HasCol(merged_data, Str("Beer Cans"))

C3_Witness ==
    /\ file_paths = <<SheetA>>
    /\ pc = "exit"
    /\ Len(csv.rows) = 1

ItemCols(df) ==
    SelectIdx([j \in 1..Len(df.columns) |-> df.columns[j] \notin NonNumeric],
              1, Len(df.columns))

\* the sum of the numeric item cells of row r, anything else counting as 0
ItemTotal(df, r) ==
    SumCells([i \in 1..Len(ItemCols(df)) |-> to_numeric(df.rows[r][ItemCols(df)[i]])], 1)

\* the row of df that carries the row label
RowOf(df, label) == CHOOSE r \in 1..Len(df.rows) : df.index[r] = label

\* C4: after merge_columns every surviving row's item columns ('Other' among
\* them) add up to the numeric item cells that row has in the sheet, a cell
\* that is text or missing counting as 0.
C4_TotalsKept ==
    pc = "merge_sites" =>
        LET book == file_paths[1]
            cells == SheetCells(book).df
            kept == SheetRows(book).df
        IN  \A r \in 1..Len(sos_data.rows) :
                ItemTotal(sos_data, r) = ItemTotal(cells, RowOf(cells, kept.index[r]))

\* C5 as stated: for any sheet a second orient_data returns what the first
\* returned, and no label of the first result holds the placeholder marker.
C5_Idempotent ==
    passes = 2 =>
        /\ sos_data = first_pass
        /\ \A j \in 1..Len(first_pass.columns) : ~IsPlaceholder(first_pass.columns[j])

NoMarkerInFirstColumn(df) ==
    \A r \in 1..Len(df.rows) : ~IsPlaceholder(df.rows[r][1])

\* C5, amended: for a sheet none of whose first-column cells holds the marker
\* 'Unnamed', a second orient_data returns what the first returned, and no
\* label of the first result holds the marker.
C5_IdempotentNoMarker ==
    (passes >= 1 /\ NoMarkerInFirstColumn(arg)) =>
        /\ \A j \in 1..Len(first_pass.columns) : ~IsPlaceholder(first_pass.columns[j])
        /\ passes = 2 => sos_data = first_pass

\* a sheet with blank header cells was transposed, then oriented again
C5_Witness ==
    /\ passes = 2
    /\ NoMarkerInFirstColumn(arg)
    /\ \E j \in 1..Len(arg.columns) : IsPlaceholder(arg.columns[j])
    /\ Len(first_pass.rows) > 0
    /\ Len(first_pass.columns) > 1
    /\ first_pass # arg

SiteCol(df) == Col(df, Str("Cleanup Site"))

\* C6 as stated: a second merge_sites leaves the Cleanup Site of every row as
\* the first left it.
C6_Converged ==
    passes = 2 => SiteCol(sos_data) = SiteCol(first_pass)

CanonicalNames == {SiteRules[i][1] : i \in 1..Len(SiteRules)}

\* C6, amended: a second merge_sites leaves unchanged every row whose Cleanup
\* Site the first pass left at a site name of the rule table.
C6_CanonicalFixed ==
    passes = 2 =>
        \A r \in 1..Len(first_pass.rows) :
            SiteCol(first_pass)[r].s \in CanonicalNames
                => SiteCol(sos_data)[r] = SiteCol(first_pass)[r]

\* a typed name was renamed by a rule, and the second pass kept the rule's name
C6_Witness ==
    /\ passes = 2
    /\ \E r \in 1..Len(first_pass.rows) :
           /\ SiteCol(first_pass)[r].s \in CanonicalNames
           /\ SiteCol(first_pass)[r] # SiteCol(arg)[r]
           /\ SiteCol(arg)[r].s \notin CanonicalNames

\* the sheet, oriented and renamed, has no column labelled so
Lacks(book, label) ==
    LET o == orient_data(read_excel(book))
    IN  o.err = "" /\ ~HasCol(rename_data(o.df), Str(label))

\* the sheet, oriented and renamed, has two columns labelled so
Twice(book, label) ==
    LET o == orient_data(read_excel(book))
    IN  o.err = "" /\ IsDup(rename_data(o.df), Str(label))

Processed == pc \in {"concat", "for", "to_csv", "exit"}

\* C7: a sheet that has no alias of Date makes the run fail at the lookup of
\* the column, and leaves no table, no merged rows and no csv.
C7_MissingDateFails ==
    (taken >= 1 /\ Lacks(file_paths[1], "Date")) =>
        /\ pc = "raised"
        /\ raised = "KeyError"
        /\ IsNone(sos_data)
        /\ IsNone(merged_data)
        /\ IsNone(csv)

\* a sheet with rows and a site column, but no date column, was read
C7_Witness ==
    /\ taken = 1
    /\ Lacks(file_paths[1], "Date")
    /\ ~Lacks(file_paths[1], "Cleanup Site")
    /\ Len(file_paths[1].data) > 0
    /\ pc = "raised"

\* C8: a sheet with two columns that are aliases of Date, or two that are
\* aliases of Cleanup Site, is never processed to the end: the run fails.
C8_AmbiguousFails ==
    (taken >= 1 /\ (Twice(file_paths[1], "Date") \/ Twice(file_paths[1], "Cleanup Site")))
        => ~Processed

\* C9: a sheet with two columns that are aliases of County/City is never
\* processed to the end: the run fails.
C9_TwoCountiesFail ==
    (taken >= 1 /\ Twice(file_paths[1], "County/City")) => ~Processed

\* C10 as stated: a workbook that fails does not keep merge_data from reading
\* the workbooks after it.
C10_Isolation ==
    raised # "" => taken = Len(file_paths)

\* C10, amended: the first error in any workbook ends merge_data: no step
\* follows it, so no further workbook is read, nothing is returned and no csv
\* is written.
C10_FailFast ==
    [][/\ raised = ""
       /\ raised' # "" => /\ pc' = "raised"
                          /\ csv' = None
                          /\ merged_data' = merged_data]_vars

\* a workbook failed while another was still waiting
C10_Witness ==
    /\ pc = "raised"
    /\ 1 <= taken
    /\ taken < Len(file_paths)

\* ---- C11 ----
\* the rows and header of the table a frame is written as (index=False)
Written(df) == [columns |-> df.columns, rows |-> df.rows]

\* C11: merged_sos_data.csv is all or nothing. Once anything has raised, the
\* file has not been written, neither in part nor with the rows of the
\* workbooks read before; and when the file exists, every workbook has been
\* taken, and the file holds exactly the accumulated table, sorted by Date.
C11_AllOrNothing ==
    /\ raised # "" => IsNone(csv)
    /\ ~IsNone(csv) =>
          /\ pc = "exit"
          /\ taken = Len(file_paths)
          /\ csv = Written(merged_data)
          /\ sort_values(merged_data).rows = merged_data.rows

\* a run that aborted after an earlier workbook's rows had been accumulated
C11_Witness ==
    /\ pc = "raised"
    /\ taken = 2
    /\ ~IsNone(merged_data)
    /\ merged_data.rows # <<>>
    /\ IsNone(csv)

\* ---- C12 ----
\* the files the script has written: its one to_csv call is line 606
FilesWritten == IF IsNone(csv) THEN {} ELSE {"merged_sos_data.csv"}

\* C12: a run that ended without raising has persisted two outputs, the merged
\* dataset and a companion table of the column specifications.
C12_TwoOutputs ==
    pc = "exit" =>
        /\ "merged_sos_data.csv" \in FilesWritten
        /\ Cardinality(FilesWritten) = 2

\* ---- C13 ----
\* C13: in the dataset merge_data returns, every item column of every row
\* holds a number (0 when the row's workbook had no such column); no item
\* cell is a missing value.
C13_ItemsAreNumbers ==
    Returned =>
        \A r \in 1..Len(merged_data.rows) :
            \A i \in 1..Len(ItemCols(merged_data)) :
                IsNum(merged_data.rows[r][ItemCols(merged_data)[i]])

\* ---- C14 ----
\* the labels of merge group g: its destination and its sources
GroupLabels(g) ==
    {Str(MergeGroups[g][1])} \cup
    {Str(MergeGroups[g][2][i]) : i \in 1..Len(MergeGroups[g][2])}

\* the columns of df that merge group g matches
GroupCols(df, g) ==
    SelectIdx([j \in 1..Len(df.columns) |-> df.columns[j] \in GroupLabels(g)],
              1, Len(df.columns))

\* the sum of the numeric cells row r has in the columns group g matches,
\* a cell that is text or missing counting as 0
GroupSum(df, r, g) ==
    With(GroupCols(df, g), LAMBDA cols :
        SumCells([i \in 1..Len(cols) |-> to_numeric(df.rows[r][cols[i]])], 1))

\* C14: a cell of an item column that is not a number (text or blank)
\* contributes 0: after merge_columns every destination holds, in every row,
\* the sum of the numeric cells of the source columns the sheet has, and is
\* never missing.
C14_PermissiveCoercion ==
    pc = "merge_sites" =>
        LET book == file_paths[1]
            cells == SheetCells(book).df
            kept == SheetRows(book).df
        IN  \A g \in 1..Len(MergeGroups) :
                \A r \in 1..Len(sos_data.rows) :
                    Cell(sos_data, r, MergeGroups[g][1])
                        = GroupSum(cells, RowOf(cells, kept.index[r]), g)

\* ---- C15 ----
\* every label a merge group names, destinations included
GroupedLabels == UNION {GroupLabels(g) : g \in 1..Len(MergeGroups)}

\* C15 as stated: after merge_columns the columns of any sheet are exactly
\* the metadata columns and the destination categories; whatever else the
\* sheet had has gone into 'Other'.
C15_OnlyCategories ==
    pc = "merge_sites" =>
        SeqToSet(sos_data.columns) = NonNumeric \cup Destinations

\* C15, amended: after merge_columns no source label of a merge group is
\* left, every destination is there, and an item column no merge group names
\* is kept under its own label with the cells read_sheet gave it; the columns
\* are the metadata columns, the destinations and those unnamed columns.
C15_UnlistedKept ==
    pc = "merge_sites" =>
        LET sheet == read_sheet(file_paths[1]).df
            unlisted == SeqToSet(sheet.columns) \ (GroupedLabels \cup NonNumeric)
        IN  /\ SeqToSet(sos_data.columns) = NonNumeric \cup Destinations \cup unlisted
            /\ \A label \in unlisted :
                   /\ ~IsDup(sos_data, label)
                   /\ Col(sos_data, label) = Col(sheet, label)
            /\ Len(sos_data.rows) = Len(sheet.rows)

\* a sheet with an item no merge group names and a source of 'Other': after
\* merge_columns the first is still a column, the second is not
C15_Witness ==
    /\ pc = "merge_sites"
    /\ HasCol(sos_data, Str("Cigarette Butts"))
    /\ HasCol(read_sheet(file_paths[1]).df, Str("Other, Small"))
    /\ ~HasCol(sos_data, Str("Other, Small"))
    /\ sos_data.rows # <<>>

\* ---- C16 ----
\* every item cell of df is a number
AllItemsNumeric(df) ==
    \A r \in 1..Len(df.rows) :
        \A i \in 1..Len(ItemCols(df)) : IsNum(df.rows[r][ItemCols(df)[i]])

\* C16: for a sheet whose item cells are all numbers and every merge group
\* (D, S): after merge_columns D holds, row by row, the sum of the sheet's
\* columns named in S plus what D held before; no column of S other than D
\* is left; and D is 0 in every row when the sheet has none of them.
C16_GroupSums ==
    pc = "merge_sites" =>
        LET sheet == read_sheet(file_paths[1]).df
        IN  AllItemsNumeric(sheet) =>
                \A g \in 1..Len(MergeGroups) :
                    /\ SeqToSet(sos_data.columns) \cap GroupLabels(g)
                           = {Str(MergeGroups[g][1])}
                    /\ \A r \in 1..Len(sos_data.rows) :
                           /\ Cell(sos_data, r, MergeGroups[g][1]) = GroupSum(sheet, r, g)
                           /\ GroupCols(sheet, g) = <<>> =>
                                  Cell(sos_data, r, MergeGroups[g][1]) = Num(0)

\* an all-number sheet whose Rope column was there before its source column
\* was added to it, and which has no column of the Cans group
C16_Witness ==
    /\ pc = "merge_sites"
    /\ sos_data.rows # <<>>
    /\ AllItemsNumeric(read_sheet(file_paths[1]).df)
    /\ Len(GroupCols(read_sheet(file_paths[1]).df, 17)) = 2
    /\ Cell(sos_data, 1, "Rope") = Num(3)
    /\ Cell(sos_data, 1, "Cans") = Num(0)
    /\ ~HasCol(sos_data, Str("Rope (Yard Pieces)"))

\* ---- C17 ----
\* C17: a sheet with two labels that rename_data maps to 'Footwear' ('Shoes'
\* and 'Footwear (Shoes/Slippers)') is read without error into a table with
\* a single 'Footwear' column that holds, row by row, the sum of the two.
C17_SameNameSummed ==
    (taken >= 1 /\ Twice(file_paths[1], "Footwear")) =>
        /\ raised = ""
        /\ pc = "merge_columns" =>
               LET cells == SheetCells(file_paths[1]).df
                   kept == SheetRows(file_paths[1]).df
                   both == SelectIdx([j \in 1..Len(cells.columns) |->
                                         cells.columns[j] = Str("Footwear")],
                                     1, Len(cells.columns))
               IN  /\ ~IsDup(sos_data, Str("Footwear"))
                   /\ \A r \in 1..Len(sos_data.rows) :
                          Cell(sos_data, r, "Footwear")
                              = SumCells([i \in 1..Len(both) |->
                                            to_numeric(cells.rows[RowOf(cells, kept.index[r])][both[i]])], 1)

\* ---- C18 ----
\* the Date cell parses: pd.to_datetime gives a timestamp
DateParses(c) == ~isna(to_datetime(c))

\* the cell survives lines 566 and 569 as a site
SiteGiven(c) == ~isna(c) /\ c \notin {Num(0), Num(1)}

\* the cell survives lines 567, 569, 573 and 574 as a date
DateGiven(c) == c # Num(0) /\ DateParses(c)

\* the table read_sheet returned holds the rows idx of the sheet raw, in that
\* order, under the row labels 0..n-1
ReturnedRows(raw, idx) ==
    /\ Len(sos_data.rows) = Len(idx)
    /\ sos_data.index = RangeIndex(Len(idx))
    /\ \A i \in 1..Len(idx) :
           /\ Cell(sos_data, i, "Date") = to_datetime(Cell(raw, idx[i], "Date"))
           /\ Cell(sos_data, i, "Cleanup Site") = Cell(raw, idx[i], "Cleanup Site")

\* C18 as stated: read_sheet returns exactly the rows whose Date parses, in
\* their order in the sheet, re-indexed 0..n-1.
C18_ParsedKept ==
    pc = "merge_columns" =>
        LET raw == SheetRenamed(file_paths[1]).df
        IN  ReturnedRows(raw, SelectIdx([r \in 1..Len(raw.rows) |->
                                            DateParses(Cell(raw, r, "Date"))],
                                        1, Len(raw.rows)))

\* C18, amended: a Date cell that does not parse never makes read_sheet
\* raise; read_sheet returns exactly the rows whose Date parses (and is not
\* 0) and whose Cleanup Site is given (not blank, 0 or 1), in their order in
\* the sheet, re-indexed 0..n-1.
C18_GivenRowsKept ==
    LET renamed == SheetRenamed(file_paths[1])
    IN  (taken >= 1 /\ renamed.err = ""
            /\ ~HasDupLabels(renamed.df)
            /\ HasCol(renamed.df, Str("Date"))
            /\ HasCol(renamed.df, Str("Cleanup Site"))) =>
            /\ read_sheet(file_paths[1]).err = ""
            /\ pc = "merge_columns" =>
                   ReturnedRows(renamed.df,
                                SelectIdx([r \in 1..Len(renamed.df.rows) |->
                                              /\ DateGiven(Cell(renamed.df, r, "Date"))
                                              /\ SiteGiven(Cell(renamed.df, r, "Cleanup Site"))],
                                          1, Len(renamed.df.rows)))

\* read_sheet returned the second and the fifth of five rows, as rows 0 and 1
C18_Witness ==
    /\ pc = "merge_columns"
    /\ file_paths = <<SheetGaps>>
    /\ sos_data.index = <<Num(0), Num(1)>>
    /\ Cell(sos_data, 1, "Date") = Ts(20210605)
    /\ Cell(sos_data, 2, "Date") = Ts(20210102)

\* ---- C19 ----
\* the sheet, oriented and renamed, before lines 559-562
SheetLabelled(book) == rename_data(orient_data(read_excel(book)).df)

\* C19: when the sheet has a 'Volunteer Hours' column, the table read_sheet
\* returns has no such column, and its 'Duration (Hrs)' is, row by row, the
\* volunteer hours divided by the number of volunteers, by 1 where that
\* number is 0 or missing.
C19_DurationFromHours ==
    (pc = "merge_columns" /\ HasCol(SheetLabelled(file_paths[1]), Str("Volunteer Hours"))) =>
        LET sheet == SheetLabelled(file_paths[1])
            kept == SheetRows(file_paths[1]).df
        IN  /\ ~HasCol(sos_data, Str("Volunteer Hours"))
            /\ \A r \in 1..Len(sos_data.rows) :
                   LET row == RowOf(sheet, kept.index[r])
                       count == Cell(sheet, row, "Adult Volunteers")
                   IN  Cell(sos_data, r, "Duration (Hrs)")
                           = Div(Cell(sheet, row, "Volunteer Hours"),
                                 IF isna(count) \/ count = Num(0) THEN Num(1) ELSE count)

\* a sheet with 6 volunteer hours and no volunteer count was read: 6 hours
C19_Witness ==
    /\ pc = "merge_columns"
    /\ HasCol(SheetLabelled(file_paths[1]), Str("Volunteer Hours"))
    /\ Len(sos_data.rows) = 1
    /\ isna(Cell(SheetLabelled(file_paths[1]), 1, "Adult Volunteers"))
    /\ Cell(sos_data, 1, "Duration (Hrs)") = Num(6)

\* ---- C20 ----
\* C20: a row whose Cleanup Site is a number (0, 1 or any other, such as 5)
\* or whose Date is missing is dropped, and the run goes on with the rows
\* that are left: no table read_sheet returns holds such a row, and
\* merge_sites never fails on one.
C20_NumericSiteDropped ==
    /\ pc \in {"merge_columns", "merge_sites"} =>
           \A r \in 1..Len(sos_data.rows) :
               /\ ~IsNum(Cell(sos_data, r, "Cleanup Site"))
               /\ ~isna(Cell(sos_data, r, "Date"))
    /\ raised # "AttributeError"

\* ---- C21 ----
\* some column label of df holds the placeholder marker
HasPlaceholder(df) == \E j \in 1..Len(df.columns) : IsPlaceholder(df.columns[j])

\* C21: a sheet none of whose column labels holds 'Unnamed' comes back from
\* orient_data as it went in: same labels, same row labels, same cells, no
\* 'Other Sum' column, and no error.
C21_UnflippedUnchanged ==
    ~HasPlaceholder(arg) =>
        /\ raised = ""
        /\ passes >= 1 => first_pass = arg /\ sos_data = arg

\* orient_data was called on a sheet without the marker that a transposition
\* would have changed, two of its first-column cells being empty
C21_Witness ==
    /\ passes = 1
    /\ ~HasPlaceholder(arg)
    /\ Len(arg.rows) >= 2
    /\ isna(arg.rows[1][1]) /\ isna(arg.rows[2][1])
    /\ Flip(arg) # Ok(arg)
    /\ sos_data = arg

\* ---- C22 ----
\* no column of df is labelled NaN and no row of df is without any value
NoBlankLabelNoEmptyRow(df) ==
    /\ \A k \in 1..Len(df.columns) : ~isna(df.columns[k])
    /\ \A i \in 1..Len(df.rows) : \E k \in 1..Len(df.columns) : ~isna(df.rows[i][k])

\* df is sheet transposed, keyed by the first column: every row of df is a
\* column of sheet other than the first, under that column's label, and every
\* column of df ('Other Sum' apart) is a row of sheet under its first cell,
\* 'Other:' standing in for an empty first cell
TransposeOf(df, sheet) ==
    /\ \A i \in 1..Len(df.rows) :
           \E j \in 2..Len(sheet.columns) : df.index[i] = sheet.columns[j]
    /\ \A k \in 1..Len(df.columns) :
           df.columns[k] # Str("Other Sum") =>
               \E r \in 1..Len(sheet.rows) :
                   /\ \/ df.columns[k] = sheet.rows[r][1]
                      \/ isna(sheet.rows[r][1]) /\ df.columns[k] = Str("Other:")
                   /\ \A i \in 1..Len(df.rows) :
                          df.rows[i][k] = sheet.rows[r][Loc(sheet, df.index[i])]

\* df has rows, and some column of df has no value in any of them
HasEmptyColumn(df) ==
    /\ df.rows # <<>>
    /\ \E k \in 1..Len(df.columns) : \A i \in 1..Len(df.rows) : isna(df.rows[i][k])

\* C22 as stated: for a sheet with the marker in a label, orient_data returns
\* the transpose keyed by the first column, without NaN-labelled column,
\* without empty row and without empty column.
C22_NothingEmpty ==
    (passes >= 1 /\ HasPlaceholder(arg)) =>
        /\ TransposeOf(first_pass, arg)
        /\ NoBlankLabelNoEmptyRow(first_pass)
        /\ ~HasEmptyColumn(first_pass)

\* C22, amended: for a sheet with the marker in a label, what orient_data
\* returns is the transpose keyed by the first column, without NaN-labelled
\* column and without empty row; a column without any value may remain.
C22_NoBlankLabelNoEmptyRow ==
    (passes >= 1 /\ HasPlaceholder(arg)) =>
        /\ TransposeOf(first_pass, arg)
        /\ NoBlankLabelNoEmptyRow(first_pass)

\* a sheet with the marker was transposed: a row with an empty first cell
\* gave no column, and an item without any count is still a column
C22_Witness ==
    /\ passes = 1
    /\ HasPlaceholder(arg)
    /\ \E r \in 1..Len(arg.rows) : isna(arg.rows[r][1])
    /\ first_pass.rows # <<>>
    /\ Len(first_pass.columns) >= 2
    /\ HasEmptyColumn(first_pass)

\* ---- C23 ----
\* C23: when the transposed sheet has a column 'Other:' (or 'Other 1- Wine
\* Cork'), orient_data returns without error, the columns before it are
\* returned as they are, the columns from it to the last are gone, and
\* 'Other Sum' holds in each row the sum of the numeric cells the row has in
\* those columns.
C23_OtherSum ==
    (HasPlaceholder(arg) /\ ~isna(OtherLabel(Flipped(arg)))) =>
        /\ ~(pc = "raised" /\ passes = 0)
        /\ passes >= 1 =>
               LET t == Flipped(arg)
                   o == Loc(t, OtherLabel(t))
                   n == Len(t.columns)
               IN  /\ first_pass.columns = SubSeq(t.columns, 1, o - 1) \o <<Str("Other Sum")>>
                   /\ first_pass.index = t.index
                   /\ \A i \in 1..Len(t.rows) :
                          /\ SubSeq(first_pass.rows[i], 1, o - 1) = SubSeq(t.rows[i], 1, o - 1)
                          /\ first_pass.rows[i][o]
                                 = SumCells([k \in 1..(n - o + 1) |->
                                               IF IsNum(t.rows[i][o + k - 1])
                                               THEN t.rows[i][o + k - 1] ELSE NaN], 1)

\* ---- C24 ----
\* some key of rule i occurs in s
HasKey(s, i) == \E k \in 1..Len(SiteRules[i][2]) : find(s, SiteRules[i][2][k])

RECURSIVE RuleWalk(_, _)
\* the rules i, i + 1, ... in table order: a rule with a key in the current
\* string replaces the whole string by its site name
RuleWalk(s, i) ==
    IF i > Len(SiteRules) THEN s
    ELSE LET t == IF HasKey(s, i) THEN SiteRules[i][1] ELSE s
         IN  IF t = t THEN RuleWalk(t, i + 1) ELSE s

\* C24: merge_sites gives every row the string the rule walk makes of its
\* trimmed, title-cased site after the literal replacements; a site in which
\* no key of any rule occurs comes out as the replacements left it.
C24_RuleWalk ==
    passes >= 1 =>
        \A r \in 1..Len(arg.rows) :
            LET cleaned == CleanSite(SiteCol(arg)[r].s)
            IN  /\ SiteCol(first_pass)[r] = Str(RuleWalk(cleaned, 1))
                /\ (\A i \in 1..Len(SiteRules) : ~HasKey(cleaned, i))
                       => SiteCol(first_pass)[r] = Str(cleaned)

\* a table of two events: one site renamed through a key that is not the
\* first of its rule, one site without any key, changed by the cleaning only
C24_Witness ==
    /\ passes = 1
    /\ Len(arg.rows) = 2
    /\ SiteCol(arg)[1] = Str("san lorenzo river levee")
    /\ SiteCol(first_pass)[1] = Str("SLR @ Felker")
    /\ SiteCol(arg)[2] = Str("U.C. Santa Cruz")
    /\ SiteCol(first_pass)[2] = Str("UC Santa Cruz")

\* ---- C25 ----
\* what lines 584-589 make of the i-th workbook of the run
PerFile(i) == merge_sites(merge_columns(read_sheet(file_paths[i]).df)).df

RECURSIVE RowsBefore(_)
\* the number of rows the workbooks before the i-th gave
RowsBefore(i) == IF i = 1 THEN 0 ELSE RowsBefore(i - 1) + Len(PerFile(i - 1).rows)

\* row r of merged is row q of df: the same cell under every label of df
SameRow(merged, r, df, q) ==
    IF merged.columns = df.columns THEN merged.rows[r] = df.rows[q]
    ELSE \A j \in 1..Len(df.columns) :
             Cell(merged, r, df.columns[j].s) = df.rows[q][j]

\* C25: the dataset merge_data returns holds the rows that read_sheet,
\* merge_columns and merge_sites gave for each workbook, each once and with
\* the cells it had: as many rows as the workbooks gave together, and under
\* the row label concat gave it, the k-th of them.
C25_RowsConserved ==
    Returned =>
        /\ Len(merged_data.rows) = RowsBefore(Len(file_paths) + 1)
        /\ \A i \in 1..Len(file_paths) :
               With(PerFile(i), LAMBDA df :
                   \A q \in 1..Len(df.rows) :
                       With(Num(RowsBefore(i) + q - 1), LAMBDA label :
                           /\ Cardinality({r \in 1..Len(merged_data.rows) :
                                              merged_data.index[r] = label}) = 1
                           /\ SameRow(merged_data, RowOf(merged_data, label), df, q)))

\* two workbooks with different columns gave three rows, and the sort moved
\* one of them
C25_Witness ==
    /\ pc = "exit"
    /\ Len(file_paths) = 2
    /\ PerFile(1).columns # PerFile(2).columns
    /\ Len(merged_data.rows) = 3
    /\ merged_data.index # RangeIndex(3)

\* ---- C26 ----
\* C26: merge_sites returns the table it was given with the same labels, the
\* same rows in the same order and the same cells in every column but
\* Cleanup Site; and the site it gives a row is the site it gives a table
\* that holds nothing but that row's site.
C26_OnlySiteChanges ==
    passes >= 1 =>
        /\ first_pass.columns = arg.columns
        /\ first_pass.index = arg.index
        /\ Len(first_pass.rows) = Len(arg.rows)
        /\ \A r \in 1..Len(arg.rows) :
               /\ \A j \in 1..Len(arg.columns) :
                      arg.columns[j] # Str("Cleanup Site")
                          => first_pass.rows[r][j] = arg.rows[r][j]
               /\ SiteCol(first_pass)[r]
                      = SiteCol(merge_sites(EventTable(<<SiteCol(arg)[r].s>>)).df)[1]

\* a table of two events at different sites, both renamed, each to its own
\* name
C26_Witness ==
    /\ passes = 1
    /\ Len(arg.rows) = 2
    /\ SiteCol(arg)[1] # SiteCol(arg)[2]
    /\ SiteCol(first_pass)[1] # SiteCol(arg)[1]
    /\ SiteCol(first_pass)[2] # SiteCol(arg)[2]
    /\ SiteCol(first_pass)[1] # SiteCol(first_pass)[2]
    /\ Cell(first_pass, 2, "Cans") = Num(2)

\* ---- C27 ----
\* C27: in the table read_sheet returns for a sheet with a 'Volunteer Hours'
\* column, a volunteer count of 0 has become 1 and a missing count is still
\* missing; for a sheet without that column the counts, 0 among them, are as
\* the sheet has them.
C27_ZeroCountsOverwritten ==
    (pc = "merge_columns" /\ HasCol(SheetLabelled(file_paths[1]), Str("Adult Volunteers"))) =>
        LET sheet == SheetLabelled(file_paths[1])
            kept == SheetRows(file_paths[1]).df
        IN  \A r \in 1..Len(sos_data.rows) :
                LET count == Cell(sheet, RowOf(sheet, kept.index[r]), "Adult Volunteers")
                IN  Cell(sos_data, r, "Adult Volunteers")
                        = IF HasCol(sheet, Str("Volunteer Hours")) /\ count = Num(0)
                          THEN Num(1) ELSE count

\* a sheet with volunteer hours and a volunteer count of 0 was read: the
\* count is 1 in the table
C27_Witness ==
    /\ pc = "merge_columns"
    /\ HasCol(SheetLabelled(file_paths[1]), Str("Volunteer Hours"))
    /\ Len(sos_data.rows) = 1
    /\ Cell(SheetLabelled(file_paths[1]), 1, "Adult Volunteers") = Num(0)
    /\ Cell(sos_data, 1, "Adult Volunteers") = Num(1)

\* ---- C28 ----
\* C28: a run over a directory without workbooks returns no dataset, empty or
\* not: from its start it can only fail at the sort, the accumulator still
\* None, and merged_sos_data.csv is not written.
C28_EmptyDirectoryFails ==
    file_paths = <<>> =>
        /\ IsNone(csv)
        /\ IsNone(merged_data)
        /\ ~Returned
        /\ \/ pc = "for" /\ raised = ""
           \/ pc = "raised" /\ raised = "AttributeError"

\* the run over the empty directory has failed
C28_Witness ==
    /\ file_paths = <<>>
    /\ pc = "raised"
    /\ raised = "AttributeError"
    /\ IsNone(csv)

\* ---- C29 ----
\* the rules with a key in s
Matching(s) == {i \in 1..Len(SiteRules) : HasKey(s, i)}

\* the site name of the first rule in table order with a key in s, s itself
\* when there is none
FirstMatch(s) ==
    With(Matching(s), LAMBDA m :
        IF m = {} THEN s
        ELSE SiteRules[CHOOSE i \in m : \A j \in m : i <= j][1])

\* C29: with the rule table of merge_sites the walk through all rules is
\* first-match-wins: no site name of a rule holds a key of a later rule, and
\* merge_sites gives every row the site name of the first rule with a key in
\* the cleaned site (the cleaned site when no rule has one).
C29_FirstMatchWins ==
    /\ passes = 0 =>
           \A i \in 1..Len(SiteRules) :
               \A j \in (i + 1)..Len(SiteRules) : ~HasKey(SiteRules[i][1], j)
    /\ passes >= 1 =>
           \A r \in 1..Len(arg.rows) :
               SiteCol(first_pass)[r] = Str(FirstMatch(CleanSite(SiteCol(arg)[r].s)))

\* a site with keys of two rules got the name of the earlier one
C29_Witness ==
    /\ passes = 1
    /\ \E r \in 1..Len(arg.rows) :
           /\ SiteCol(arg)[r] = Str("capitola to seabright")
           /\ Cardinality(Matching(CleanSite(SiteCol(arg)[r].s))) = 2
           /\ SiteCol(first_pass)[r] = Str("Capitola")

\* ---- C30 ----
\* raw site names to try the rule table on: the names of the tables, every
\* key typed as it stands, and a name whose period, once removed, leaves a
\* capital inside a word
ProbeSites == RawSites \cup KeySites \cup {"mc.abee beach"}

\* the keys that occur in no cleaned probe
DeadKeys == {k \in KeySites : \A raw \in ProbeSites : ~find(CleanSite(raw), k)}

\* the rules that are the first to match for no probe
DeadRules ==
    {SiteRules[i][1] : i \in 1..Len(SiteRules)}
        \ {FirstMatch(CleanSite(raw)) : raw \in ProbeSites}

\* C30: every key of the rule table occurs in the cleaned form of some raw
\* site name, and every rule is, for some raw site name, the rule that
\* rewrites it.
C30_EveryRuleLive ==
    passes = 0 => DeadKeys = {} /\ DeadRules = {}

====
